---- MODULE Spec2Model ----
(***************************************************************************)
(* A model of main.py, the fact-checker service: the /verify endpoint, the *)
(* fallback pipeline analyze_claim_with_live_data (knowledge base, news,   *)
(* Gemini, knowledge graph) and the entity extractor.                      *)
(*                                                                         *)
(* Text is modelled as a sequence of one-character strings, so that        *)
(* lower(), substring tests, strip(), split(), replace() and the regular   *)
(* expressions are computed the way Python computes them.                  *)
(***************************************************************************)
EXTENDS Integers, Sequences, FiniteSets, TLC

----------------------------------------------------------------------------
(* Python string operations on character sequences                         *)

UpperChars ==
    <<"A","B","C","D","E","F","G","H","I","J","K","L","M",
      "N","O","P","Q","R","S","T","U","V","W","X","Y","Z">>

LowerChars ==
    <<"a","b","c","d","e","f","g","h","i","j","k","l","m",
      "n","o","p","q","r","s","t","u","v","w","x","y","z">>

\* str.isspace for the characters the inputs use
Whitespace == {" ", "\t", "\n"}

LowerChar(c) ==
    IF \E i \in 1..Len(UpperChars) : UpperChars[i] = c
    THEN LowerChars[CHOOSE i \in 1..Len(UpperChars) : UpperChars[i] = c]
    ELSE c

\* str.lower()
Lower(s) == [i \in 1..Len(s) |-> LowerChar(s[i])]

\* p occurs in s at position i
MatchAt(s, p, i) ==
    /\ i >= 1
    /\ i + Len(p) - 1 <= Len(s)
    /\ \A k \in 1..Len(p) : s[i + k - 1] = p[k]

\* `p in s`
Contains(s, p) == \E i \in 1..(Len(s) + 1) : MatchAt(s, p, i)

\* str.find, 1-based, from position `from`; 0 when absent
Find(s, p, from) ==
    IF \E i \in from..(Len(s) + 1) : MatchAt(s, p, i)
    THEN CHOOSE i \in from..(Len(s) + 1) :
            /\ MatchAt(s, p, i)
            /\ \A j \in from..(i - 1) : ~MatchAt(s, p, j)
    ELSE 0

\* str.startswith
StartsWith(s, p) == MatchAt(s, p, 1)

\* str.strip()
Strip(s) ==
    IF \A i \in 1..Len(s) : s[i] \in Whitespace
    THEN << >>
    ELSE LET a == CHOOSE i \in 1..Len(s) :
                     /\ s[i] \notin Whitespace
                     /\ \A j \in 1..(i - 1) : s[j] \in Whitespace
             b == CHOOSE i \in 1..Len(s) :
                     /\ s[i] \notin Whitespace
                     /\ \A j \in (i + 1)..Len(s) : s[j] \in Whitespace
         IN  SubSeq(s, a, b)

\* str.replace(old, new): non-overlapping occurrences, left to right
RECURSIVE Replace(_, _, _)
Replace(s, old, new) ==
    LET i == Find(s, old, 1)
    IN  IF i = 0 \/ Len(old) = 0
        THEN s
        ELSE SubSeq(s, 1, i - 1) \o new
                 \o Replace(SubSeq(s, i + Len(old), Len(s)), old, new)

\* str.split(sep)[0]: the text before the first occurrence of sep
SplitHead(s, sep) ==
    LET i == Find(s, sep, 1)
    IN  IF i = 0 THEN s ELSE SubSeq(s, 1, i - 1)

\* str.split(): the whitespace-separated words
RECURSIVE SplitWords(_)
SplitWords(s) ==
    LET t == Strip(s)
    IN  IF Len(t) = 0
        THEN << >>
        ELSE LET e == IF \E i \in 1..Len(t) : t[i] \in Whitespace
                      THEN (CHOOSE i \in 1..Len(t) :
                               /\ t[i] \in Whitespace
                               /\ \A j \in 1..(i - 1) : t[j] \notin Whitespace) - 1
                      ELSE Len(t)
             IN  <<SubSeq(t, 1, e)>> \o SplitWords(SubSeq(t, e + 1, Len(t)))

\* sep.join(words)
RECURSIVE Join(_, _)
Join(words, sep) ==
    IF Len(words) = 0 THEN << >>
    ELSE IF Len(words) = 1 THEN words[1]
    ELSE words[1] \o sep \o Join(Tail(words), sep)

\* re.search(pre + "(.*)" + post, s): the leftmost start of pre from which
\* post is found again on the same line, the group running (greedily) to
\* the last such post.  "." matches anything but a newline.
GroupEnds(s, pre, post, i) ==
    { j \in (i + Len(pre))..(Len(s) + 1) :
        /\ MatchAt(s, post, j)
        /\ \A k \in (i + Len(pre))..(j - 1) : s[k] # "\n" }

RegexMatches(s, pre, post) ==
    \E i \in 1..Len(s) : MatchAt(s, pre, i) /\ GroupEnds(s, pre, post, i) # {}

\* match.group(1)
RegexGroup(s, pre, post) ==
    LET i == CHOOSE i \in 1..Len(s) :
                /\ MatchAt(s, pre, i) /\ GroupEnds(s, pre, post, i) # {}
                /\ \A h \in 1..(i - 1) :
                      ~(MatchAt(s, pre, h) /\ GroupEnds(s, pre, post, h) # {})
        E == GroupEnds(s, pre, post, i)
        j == CHOOSE j \in E : \A k \in E : k <= j
    IN  SubSeq(s, i + Len(pre), j - 1)

----------------------------------------------------------------------------
(* String literals of main.py                                              *)

\* "nepal"
key_nepal ==
    <<"n","e","p","a","l">>
\* "parliament"
key_parliament ==
    <<"p","a","r","l","i","a","m","e","n","t">>
\* "singha durbar"
key_singha_durbar ==
    <<"s","i","n","g","h","a"," ","d","u","r","b","a","r">>
\* "burnt"
key_burnt ==
    <<"b","u","r","n","t">>
\* "fire"
key_fire ==
    <<"f","i","r","e">>
\* "today"
kw_today ==
    <<"t","o","d","a","y">>
\* "yesterday"
kw_yesterday ==
    <<"y","e","s","t","e","r","d","a","y">>
\* "this week"
kw_this_week ==
    <<"t","h","i","s"," ","w","e","e","k">>
\* "market"
kw_market ==
    <<"m","a","r","k","e","t">>
\* "election"
kw_election ==
    <<"e","l","e","c","t","i","o","n">>
\* "downgrade"
kw_downgrade ==
    <<"d","o","w","n","g","r","a","d","e">>
\* "days ago"
kw_days_ago ==
    <<"d","a","y","s"," ","a","g","o">>
\* "last month"
kw_last_month ==
    <<"l","a","s","t"," ","m","o","n","t","h">>
\* "breaking news"
kw_breaking_news ==
    <<"b","r","e","a","k","i","n","g"," ","n","e","w","s">>
\* "what is "
re_what_is ==
    <<"w","h","a","t"," ","i","s"," ">>
\* "who is "
re_who_is ==
    <<"w","h","o"," ","i","s"," ">>
\* "where is "
re_where_is ==
    <<"w","h","e","r","e"," ","i","s"," ">>
\* "what's "
re_whats ==
    <<"w","h","a","t","'","s"," ">>
\* "who's "
re_whos ==
    <<"w","h","o","'","s"," ">>
\* "where's "
re_wheres ==
    <<"w","h","e","r","e","'","s"," ">>
\* "is "
re_is ==
    <<"i","s"," ">>
\* "are "
re_are ==
    <<"a","r","e"," ">>
\* "?"
re_qmark ==
    <<"?">>
\* " in"
re_in ==
    <<" ","i","n">>
\* " is "
sep_is ==
    <<" ","i","s"," ">>
\* " are "
sep_are ==
    <<" ","a","r","e"," ">>
\* " the "
sub_the ==
    <<" ","t","h","e"," ">>
\* "true"
str_true ==
    <<"t","r","u","e">>
\* "false"
str_false ==
    <<"f","a","l","s","e">>

----------------------------------------------------------------------------
(* extract_main_entity                                                     *)

\* the patterns, in order; each is  pre (.*) post
EntityPatterns ==
    << <<re_what_is, re_qmark>>, <<re_who_is, re_qmark>>,
       <<re_where_is, re_qmark>>, <<re_whats, re_qmark>>,
       <<re_whos, re_qmark>>, <<re_wheres, re_qmark>>,
       <<re_is, re_in>>, <<re_are, re_in>> >>

\* A slip the extractor could have: the article is dropped at the start of
\* the entity too, not only between two spaces.
extract_main_entity_drops_leading_the(claim) ==
    LET c == Lower(claim)
        drop(e) == LET r == Replace(e, sub_the, << >>)
                   IN  IF StartsWith(r, SubSeq(sub_the, 2, 5))
                       THEN SubSeq(r, 5, Len(r)) ELSE r
        hits == { k \in 1..Len(EntityPatterns) :
                    RegexMatches(c, EntityPatterns[k][1], EntityPatterns[k][2]) }
    IN  IF hits # {}
        THEN LET k == CHOOSE k \in hits : \A h \in hits : k <= h
             IN  drop(Strip(RegexGroup(c, EntityPatterns[k][1], EntityPatterns[k][2])))
        ELSE IF Contains(c, sep_is) THEN drop(Strip(SplitHead(c, sep_is)))
        ELSE IF Contains(c, sep_are) THEN drop(Strip(SplitHead(c, sep_are)))
        ELSE Strip(c)

extract_main_entity(claim) ==
    LET c == Lower(claim)
        hits == { k \in 1..Len(EntityPatterns) :
                    RegexMatches(c, EntityPatterns[k][1], EntityPatterns[k][2]) }
    IN  IF hits # {}
        THEN LET k == CHOOSE k \in hits : \A h \in hits : k <= h
             IN  Replace(Strip(RegexGroup(c, EntityPatterns[k][1],
                                          EntityPatterns[k][2])),
                         sub_the, << >>)
        ELSE IF Contains(c, sep_is)
             THEN Replace(Strip(SplitHead(c, sep_is)), sub_the, << >>)
        ELSE IF Contains(c, sep_are)
             THEN Replace(Strip(SplitHead(c, sep_are)), sub_the, << >>)
        ELSE Strip(c)

----------------------------------------------------------------------------
(* Inputs: the claims posted to /verify and the texts the services return  *)

\* "What is the Eiffel Tower?"
claim_eiffel ==
    <<"W","h","a","t"," ","i","s"," ","t","h","e"," ","E","i","f","f","e","l",
      " ","T","o","w","e","r","?">>
\* "Paris is the capital of France"
claim_paris ==
    <<"P","a","r","i","s"," ","i","s"," ","t","h","e"," ","c","a","p","i","t",
      "a","l"," ","o","f"," ","F","r","a","n","c","e">>
\* "bananas are yellow"
claim_bananas ==
    <<"b","a","n","a","n","a","s"," ","a","r","e"," ","y","e","l","l","o",
      "w">>
\* "hello world"
claim_hello ==
    <<"h","e","l","l","o"," ","w","o","r","l","d">>
\* "Nepal Parliament at Singha Durbar burnt in a fire"
claim_nepal ==
    <<"N","e","p","a","l"," ","P","a","r","l","i","a","m","e","n","t"," ","a",
      "t"," ","S","i","n","g","h","a"," ","D","u","r","b","a","r"," ","b","u",
      "r","n","t"," ","i","n"," ","a"," ","f","i","r","e">>
\* "Fire today: Nepal parliament Singha Durbar burnt"
claim_nepal_today ==
    <<"F","i","r","e"," ","t","o","d","a","y",":"," ","N","e","p","a","l"," ",
      "p","a","r","l","i","a","m","e","n","t"," ","S","i","n","g","h","a"," ",
      "D","u","r","b","a","r"," ","b","u","r","n","t">>
\* "nepal parliament fire"
claim_partial ==
    <<"n","e","p","a","l"," ","p","a","r","l","i","a","m","e","n","t"," ","f",
      "i","r","e">>
\* "The market crashed today"
claim_market ==
    <<"T","h","e"," ","m","a","r","k","e","t"," ","c","r","a","s","h","e","d",
      " ","t","o","d","a","y">>
\* "Is the election in Nepal this week"
claim_election ==
    <<"I","s"," ","t","h","e"," ","e","l","e","c","t","i","o","n"," ","i","n",
      " ","N","e","p","a","l"," ","t","h","i","s"," ","w","e","e","k">>
\* " is today"
claim_is_today ==
    <<" ","i","s"," ","t","o","d","a","y">>
\* "TRUE. It is so."
text_true ==
    <<"T","R","U","E","."," ","I","t"," ","i","s"," ","s","o",".">>
\* "False: it is not."
text_false ==
    <<"F","a","l","s","e",":"," ","i","t"," ","i","s"," ","n","o","t",".">>
\* "UNVERIFIED. Unclear."
text_unverified ==
    <<"U","N","V","E","R","I","F","I","E","D","."," ","U","n","c","l","e","a",
      "r",".">>
\* "Falsehoods aside, yes."
text_falsehood ==
    <<"F","a","l","s","e","h","o","o","d","s"," ","a","s","i","d","e",","," ",
      "y","e","s",".">>
\* " True."
text_space_true ==
    <<" ","T","r","u","e",".">>
\* "It depends."
text_other ==
    <<"I","t"," ","d","e","p","e","n","d","s",".">>
\* "Tower in PARIS."
body_tower ==
    <<"T","o","w","e","r"," ","i","n"," ","P","A","R","I","S",".">>

Claims ==
    { claim_eiffel, claim_paris, claim_bananas, claim_hello, claim_nepal,
      claim_nepal_today, claim_partial, claim_market, claim_election,
      claim_is_today }

\* the texts Gemini may answer with
GeminiTexts ==
    { << >>, text_true, text_false, text_unverified, text_falsehood,
      text_space_true, text_other }

----------------------------------------------------------------------------
(* Values                                                                  *)

\* Python's None and a value, as one shape
None == [some |-> FALSE, val |-> << >>]

Some(v) == [some |-> TRUE, val |-> v]

\* what a call does: it returns a value or raises
Returned(v) == [raised |-> FALSE, value |-> v]

Raised == [raised |-> TRUE, value |-> None]

\* an f-string is the sequence of its pieces: literal text and formatted
\* values
Lit(s) == [lit |-> s, txt |-> << >>]

Txt(t) == [lit |-> "", txt |-> t]

\* f"{n}%"
Percent(n) == ToString(n) \o "%"

\* NewsAPI request parameter pageSize
NewsPageSize == 3

\* description[:200]
DescriptionLimit == 200

\* random.randint(85, 95)
GeminiConfidenceMin == 85

GeminiConfidenceMax == 95

\* random.randint(50, 65)
GraphConfidenceMin == 50

GraphConfidenceMax == 65

\* the number of matching articles the news service may hold
FeedSize == 4

----------------------------------------------------------------------------
(* The environment: the credentials, and what a service may answer         *)

\* os.getenv(name): unset, empty, the .env placeholder, or a key
KeyUnset == [set |-> FALSE, value |-> ""]

KeyValue(v) == [set |-> TRUE, value |-> v]

\* the i-th article the news service holds
FeedArticle(i) ==
    [ fields |-> {"source", "url"},
      source_name |-> "source" \o ToString(i),
      url |-> "https://news.example/" \o ToString(i) ]

\* an article object without its "source" member
ArticleWithoutSource ==
    [ fields |-> {"url"}, source_name |-> "", url |-> "https://news.example/x" ]

\* the service honours pageSize: at most NewsPageSize of the k it holds
NewsPage(k) ==
    [ i \in 1..(IF k < NewsPageSize THEN k ELSE NewsPageSize) |-> FeedArticle(i) ]

\* no request has been sent
NewsNotAsked == [kind |-> "not_asked", has_articles |-> FALSE, articles |-> << >>]

\* what NewsAPI may answer: no answer at all, a non-2xx status, a body that
\* is not JSON, a JSON value that is no object, an object without
\* "articles", a page of articles, a page with a malformed article
NewsReplies ==
    { [kind |-> "connection_error", has_articles |-> FALSE, articles |-> << >>],
      [kind |-> "http_error", has_articles |-> FALSE, articles |-> << >>],
      [kind |-> "not_json", has_articles |-> FALSE, articles |-> << >>],
      [kind |-> "not_object", has_articles |-> FALSE, articles |-> << >>],
      [kind |-> "ok", has_articles |-> FALSE, articles |-> << >>] }
    \cup { [kind |-> "ok", has_articles |-> TRUE, articles |-> NewsPage(k)] :
             k \in 0..FeedSize }
    \cup { [kind |-> "ok", has_articles |-> TRUE,
            articles |-> <<ArticleWithoutSource>>],
           [kind |-> "ok", has_articles |-> TRUE,
            articles |-> <<FeedArticle(1), ArticleWithoutSource>>] }

\* NEWS_API_KEY
NewsKeys ==
    { KeyUnset, KeyValue(""), KeyValue("your_newsapi_org_key"),
      KeyValue("news-key") }

GeminiNotAsked == [kind |-> "not_asked", text |-> << >>]

\* what a Gemini call may do: fail (key, network, quota), answer without a
\* text, or answer with a text
GeminiReplies ==
    { [kind |-> "api_error", text |-> << >>],
      [kind |-> "no_text", text |-> << >>] }
    \cup { [kind |-> "text", text |-> t] : t \in GeminiTexts }

\* the "result" objects of the knowledge graph
GraphResults ==
    { [ fields |-> {}, name |-> "", description |-> None ],
      [ fields |-> {"name", "detailedDescription"}, name |-> "Eiffel Tower",
        description |-> Some([ fields |-> {"articleBody", "url"},
                               articleBody |-> body_tower,
                               url |-> "https://kg.example/tower" ]) ],
      [ fields |-> {"name"}, name |-> "Paris", description |-> None ],
      [ fields |-> {"@id", "detailedDescription"}, name |-> "",
        description |-> Some([ fields |-> {"articleBody"},
                               articleBody |-> body_tower, url |-> "" ]) ] }

GraphNotAsked == [kind |-> "not_asked", has_items |-> FALSE, items |-> << >>]

GraphReplies ==
    { [kind |-> "connection_error", has_items |-> FALSE, items |-> << >>],
      [kind |-> "http_error", has_items |-> FALSE, items |-> << >>],
      [kind |-> "not_json", has_items |-> FALSE, items |-> << >>],
      [kind |-> "not_object", has_items |-> FALSE, items |-> << >>],
      [kind |-> "ok", has_items |-> FALSE, items |-> << >>],
      [kind |-> "ok", has_items |-> TRUE, items |-> << >>],
      [kind |-> "ok", has_items |-> TRUE,
       items |-> << [has_result |-> FALSE,
                     result |-> [fields |-> {}, name |-> "",
                                 description |-> None]] >>] }
    \cup { [kind |-> "ok", has_items |-> TRUE,
            items |-> << [has_result |-> TRUE, result |-> r] >>] :
             r \in GraphResults }

\* GOOGLE_API_KEY
GraphKeys ==
    { KeyUnset, KeyValue(""), KeyValue("your_actual_api_key_here"),
      KeyValue("graph-key") }

\* the JSON body posted to /verify: with or without a "claim" member
Requests ==
    { [has_claim |-> FALSE, claim |-> << >>], [has_claim |-> TRUE, claim |-> << >>] }
    \cup { [has_claim |-> TRUE, claim |-> c] : c \in Claims }

----------------------------------------------------------------------------
(* The stages                                                              *)

\* `not api_key or api_key == placeholder`
KeyMissing(api_key, placeholder) ==
    \/ ~api_key.set
    \/ api_key.value = ""
    \/ api_key.value = placeholder

\* query_news_api, given the key and what the service answers.  A failed
\* connection, a non-2xx status (raise_for_status) and a body that is not
\* JSON (response.json) raise a RequestException, which is caught; data.get
\* on a JSON value that is no object raises an AttributeError, which is not.
query_news_api(keywords, api_key, reply) ==
    IF KeyMissing(api_key, "your_newsapi_org_key")
    THEN Returned(None)
    ELSE CASE reply.kind \in {"connection_error", "http_error", "not_json"} ->
                Returned(None)
           [] reply.kind = "not_object" -> Raised
           [] OTHER ->
                IF reply.has_articles /\ Len(reply.articles) > 0
                THEN Returned(Some(reply.articles))
                ELSE Returned(None)

\* query_gemini_api: every failure is caught
query_gemini_api(claim, reply) ==
    IF reply.kind = "text" THEN Returned(Some(reply.text)) ELSE Returned(None)

\* A slip the orchestrator could have: the lower-cased claim is passed on.
GeminiStatementLowerCase(claim, lower_case_claim) == lower_case_claim

\* the statement the Gemini prompt embeds
GeminiStatement(claim, lower_case_claim) == claim

\* query_knowledge_graph, given the key and what the service answers.  An
\* item without "result" raises a KeyError, which is not caught.
query_knowledge_graph(entity, api_key, reply) ==
    IF KeyMissing(api_key, "your_actual_api_key_here")
    THEN Returned(None)
    ELSE CASE reply.kind \in {"connection_error", "http_error", "not_json"} ->
                Returned(None)
           [] reply.kind = "not_object" -> Raised
           [] OTHER ->
                IF reply.has_items /\ Len(reply.items) > 0
                THEN IF reply.items[1].has_result
                     THEN Returned(Some(reply.items[1].result))
                     ELSE Raised
                ELSE Returned(None)

----------------------------------------------------------------------------
(* analyze_claim_with_live_data: the knowledge base and the verdicts       *)

demo_facts ==
    << [ keys |-> <<key_nepal, key_parliament, key_singha_durbar, key_burnt,
                    key_fire>>,
         verdict |-> "FALSE",
         explanation |-> << Lit("This is a common piece of misinformation. Photos of Singha Durbar burning are real but are from a major fire in 1973. While the parliament is housed there, it did not burn down in recent protests. This is a case of real images being used in a false context.") >>,
         sources |-> << [ title |-> "The 1973 Singha Durbar Fire - The Record",
                          url |-> "https://www.recordnepal.com/the-1973-singha-durbar-fire" ] >> ] >>

news_keywords ==
    << kw_today, kw_yesterday, kw_this_week, kw_market, kw_election,
       kw_downgrade, kw_days_ago, kw_last_month, kw_breaking_news >>

\* A slip the match could have: the keys are looked up in the claim as
\* typed, not in its lower-case form.
FactMatchesCaseSensitive(fact, claim) ==
    \A i \in 1..Len(fact.keys) : Contains(claim, fact.keys[i])

\* all(key in lower_case_claim for key in fact["keys"])
FactMatches(fact, claim) ==
    \A i \in 1..Len(fact.keys) : Contains(Lower(claim), fact.keys[i])

\* the facts that match, by position
MatchingFacts(claim) ==
    { i \in 1..Len(demo_facts) : FactMatches(demo_facts[i], claim) }

\* fact["confidence"] = "99%"; return fact
FactVerdict(fact) ==
    [ keys |-> fact.keys, verdict |-> fact.verdict,
      explanation |-> fact.explanation, sources |-> fact.sources,
      confidence |-> "99%" ]

\* any(keyword in lower_case_claim for keyword in news_keywords)
NewsTriggered(lower_case_claim) ==
    \E i \in 1..Len(news_keywords) : Contains(lower_case_claim, news_keywords[i])

\* article['source']['name'] and article['url'] can be read
ArticleReadable(article) == {"source", "url"} \subseteq article.fields

\* A slip the news verdict could have: only the first article is listed.
NewsSourcesFirstOnly(articles) ==
    << [ title |-> articles[1].source_name, url |-> articles[1].url ] >>

NewsSources(articles) ==
    [ i \in 1..Len(articles) |->
        [ title |-> articles[i].source_name, url |-> articles[i].url ] ]

NewsVerdict(entity_for_news, articles) ==
    [ verdict |-> "UNVERIFIED",
      explanation |->
        << Lit("This appears to be a recent news event. Here are the latest top articles related to '"),
           Txt(Join(entity_for_news, <<" ">>)),
           Lit("'. We recommend reading them to form your own conclusion.") >>,
      sources |-> NewsSources(articles),
      confidence |-> "70%" ]

\* the word a text starts with: its leading letters, after any leading
\* whitespace
FirstWord(t) ==
    LET u == Strip(t)
        n == IF \E i \in 1..Len(u) : \A j \in 1..Len(LowerChars) : u[i] # LowerChars[j]
             THEN (CHOOSE i \in 1..Len(u) :
                      /\ \A j \in 1..Len(LowerChars) : u[i] # LowerChars[j]
                      /\ \A h \in 1..(i - 1) :
                            \E j \in 1..Len(LowerChars) : u[h] = LowerChars[j]) - 1
             ELSE Len(u)
    IN  SubSeq(u, 1, n)

\* A different rule: the verdict is read off the first word of the answer.
GeminiVerdictByFirstWord(gemini_response) ==
    LET w == FirstWord(Lower(gemini_response))
    IN  IF w = str_true THEN "TRUE"
        ELSE IF w = str_false THEN "FALSE"
        ELSE "UNVERIFIED"

\* response_lower.startswith("true") / startswith("false")
GeminiVerdictWord(gemini_response) ==
    LET response_lower == Lower(gemini_response)
    IN  IF StartsWith(response_lower, str_true) THEN "TRUE"
        ELSE IF StartsWith(response_lower, str_false) THEN "FALSE"
        ELSE "UNVERIFIED"

GeminiVerdict(gemini_response, n) ==
    [ verdict |-> GeminiVerdictWord(gemini_response),
      explanation |-> << Txt(gemini_response) >>,
      sources |-> << [title |-> "Source: Google Gemini", url |-> "https://ai.google/"] >>,
      confidence |-> Percent(n) ]

\* dict truthiness
Truthy(dict) == dict.fields # {}

\* f"{kg_result.get('name')}"
GraphName(kg_result) ==
    IF "name" \in kg_result.fields THEN kg_result.name ELSE "None"

\* kg_result.get('detailedDescription', {}).get('articleBody', '').lower()
GraphDescription(kg_result) ==
    IF /\ "detailedDescription" \in kg_result.fields
       /\ "articleBody" \in kg_result.description.val.fields
    THEN Lower(kg_result.description.val.articleBody)
    ELSE << >>

\* kg_result.get('detailedDescription', {}).get('url', '#')
GraphUrl(kg_result) ==
    IF /\ "detailedDescription" \in kg_result.fields
       /\ "url" \in kg_result.description.val.fields
    THEN kg_result.description.val.url
    ELSE "#"

\* A slip the fallback could have: Gemini's confidence range is used.
GraphVerdictGeminiRange(kg_result, n) ==
    LET description == GraphDescription(kg_result)
        cut == IF Len(description) < DescriptionLimit
               THEN Len(description) ELSE DescriptionLimit
    IN  [ verdict |-> "UNVERIFIED",
          explanation |->
            << Lit("We found information on '"),
               Lit(GraphName(kg_result)),
               Lit("', but could not definitively verify this specific claim. Here is a summary from Google: "),
               Txt(SubSeq(description, 1, cut)),
               Lit("...") >>,
          sources |-> << [title |-> "Knowledge Graph Source", url |-> GraphUrl(kg_result)] >>,
          confidence |-> Percent(n + GeminiConfidenceMin - GraphConfidenceMin) ]

GraphVerdict(kg_result, n) ==
    LET description == GraphDescription(kg_result)
        cut == IF Len(description) < DescriptionLimit
               THEN Len(description) ELSE DescriptionLimit
    IN  [ verdict |-> "UNVERIFIED",
          explanation |->
            << Lit("We found information on '"),
               Lit(GraphName(kg_result)),
               Lit("', but could not definitively verify this specific claim. Here is a summary from Google: "),
               Txt(SubSeq(description, 1, cut)),
               Lit("...") >>,
          sources |-> << [title |-> "Knowledge Graph Source", url |-> GraphUrl(kg_result)] >>,
          confidence |-> Percent(n) ]

\* A slip the default could have: exhaustion reported as UNVERIFIED.
DefaultVerdictUnverified ==
    [ verdict |-> "UNVERIFIED",
      explanation |-> << Lit("Could not verify the claim through any available API.") >>,
      sources |-> << >>, confidence |-> "0%" ]

DefaultVerdict ==
    [ verdict |-> "ERROR",
      explanation |-> << Lit("Could not verify the claim through any available API.") >>,
      sources |-> << >>, confidence |-> "0%" ]

----------------------------------------------------------------------------
(* One request to /verify                                                  *)

VARIABLES
    request,          \* the JSON body posted
    newsKey,          \* NEWS_API_KEY
    graphKey,         \* GOOGLE_API_KEY
    newsReply,        \* what each service answered, once asked
    geminiReply,
    graphReply,
    pc,               \* where the handler is
    entity_for_news,  \* locals of analyze_claim_with_live_data
    articles,
    gemini_response,
    entity,
    kg_result,
    calls,            \* the stages consulted, in order: the argument and
                      \* how the call ended ("value", "empty", "none",
                      \* "raised")
    outcome,          \* "pending", "rejected", "verdict" or "exception"
    result,           \* what analyze_claim_with_live_data returned
    response          \* the HTTP response

vars ==
    << request, newsKey, graphKey, newsReply, geminiReply, graphReply, pc,
       entity_for_news, articles, gemini_response, entity, kg_result, calls,
       outcome, result, response >>

\* fixed for the request: its body and the process configuration
config == << request, newsKey, graphKey >>

NoVerdict ==
    [ verdict |-> "", explanation |-> << >>, sources |-> << >>, confidence |-> "" ]

Init ==
    /\ request \in Requests
    /\ newsKey \in NewsKeys
    /\ graphKey \in GraphKeys
    /\ newsReply = NewsNotAsked
    /\ geminiReply = GeminiNotAsked
    /\ graphReply = GraphNotAsked
    /\ pc = "verify"
    /\ entity_for_news = << >>
    /\ articles = None
    /\ gemini_response = None
    /\ entity = << >>
    /\ kg_result = None
    /\ calls = << >>
    /\ outcome = "pending"
    /\ result = NoVerdict
    /\ response = [status |-> 0, body |-> NoVerdict]

\* the return of analyze_claim_with_live_data, then jsonify(verdict_data)
Return(v) ==
    /\ pc' = "done"
    /\ outcome' = "verdict"
    /\ result' = v
    /\ response' = [status |-> 200, body |-> v]

\* an exception nothing catches: the request ends as a server error
Fail ==
    /\ pc' = "done"
    /\ outcome' = "exception"
    /\ result' = NoVerdict
    /\ response' = [status |-> 500, body |-> NoVerdict]

\* how a call ended, for the record of calls: it raised, it returned None,
\* it returned a value `if` takes as false, or it returned a value
CallEnd(o, truthy) ==
    IF o.raised THEN "raised"
    ELSE IF ~o.value.some THEN "none"
    ELSE IF truthy THEN "value"
    ELSE "empty"

\* A slip the endpoint could have: only a missing member is rejected.
ClaimMissingOnlyAbsent(data) == ~data.has_claim

\* claim = data.get('claim', ''); `not claim`
ClaimMissing(data) == ~data.has_claim \/ Len(data.claim) = 0

\* verify_claim, up to the call of analyze_claim_with_live_data
VerifyClaim ==
    /\ pc = "verify"
    /\ IF ClaimMissing(request)
       THEN /\ pc' = "done"
            /\ outcome' = "rejected"
            /\ response' = [status |-> 400,
                            body |-> [error |-> "No claim provided"]]
       ELSE /\ pc' = "step1"
            /\ UNCHANGED <<outcome, response>>
    /\ UNCHANGED <<config, newsReply, geminiReply, graphReply, entity_for_news,
                   articles, gemini_response, entity, kg_result, calls, result>>

\* STEP 1: the internal knowledge base
Step1KnowledgeBase ==
    /\ pc = "step1"
    /\ LET hits == MatchingFacts(request.claim)
       IN  /\ calls' = Append(calls,
                   [stage |-> "knowledge_base", arg |-> Lower(request.claim),
                    out |-> IF hits # {} THEN "value" ELSE "none"])
           /\ IF hits # {}
              THEN Return(FactVerdict(
                       demo_facts[CHOOSE i \in hits : \A h \in hits : i <= h]))
              ELSE /\ pc' = "step2"
                   /\ UNCHANGED <<outcome, result, response>>
    /\ UNCHANGED <<config, newsReply, geminiReply, graphReply, entity_for_news,
                   articles, gemini_response, entity, kg_result>>

\* STEP 2: news, for a claim with a news keyword
Step2News ==
    /\ pc = "step2"
    /\ IF NewsTriggered(Lower(request.claim))
       THEN LET keywords == SplitWords(extract_main_entity(request.claim))
            IN  /\ entity_for_news' = keywords
                /\ \E reply \in (IF KeyMissing(newsKey, "your_newsapi_org_key")
                                 THEN {NewsNotAsked} ELSE NewsReplies) :
                   LET o == query_news_api(keywords, newsKey, reply) IN
                      /\ newsReply' = reply
                      /\ calls' = Append(calls,
                              [stage |-> "news", arg |-> keywords,
                               out |-> CallEnd(o, o.value.some)])
                      /\ IF o.raised
                         THEN Fail /\ UNCHANGED articles
                         ELSE /\ articles' = o.value
                              /\ IF o.value.some
                                 THEN IF \A i \in 1..Len(o.value.val) :
                                            ArticleReadable(o.value.val[i])
                                      THEN Return(NewsVerdict(keywords,
                                                              o.value.val))
                                      ELSE Fail
                                 ELSE /\ pc' = "step3"
                                      /\ UNCHANGED <<outcome, result,
                                                     response>>
       ELSE /\ pc' = "step3"
            /\ UNCHANGED <<newsReply, entity_for_news, articles, calls,
                           outcome, result, response>>
    /\ UNCHANGED <<config, geminiReply, graphReply, gemini_response, entity,
                   kg_result>>

\* STEP 3: Gemini
Step3Gemini ==
    /\ pc = "step3"
    /\ \E reply \in GeminiReplies :
          LET statement == GeminiStatement(request.claim, Lower(request.claim))
              o == query_gemini_api(statement, reply)
          IN  /\ geminiReply' = reply
              /\ calls' = Append(calls,
                      [stage |-> "gemini", arg |-> statement,
                       out |-> CallEnd(o, o.value.some /\ Len(o.value.val) > 0)])
              /\ gemini_response' = o.value
              /\ IF o.value.some /\ Len(o.value.val) > 0
                 THEN \E n \in GeminiConfidenceMin..GeminiConfidenceMax :
                         Return(GeminiVerdict(o.value.val, n))
                 ELSE /\ pc' = "step4"
                      /\ UNCHANGED <<outcome, result, response>>
    /\ UNCHANGED <<config, newsReply, graphReply, entity_for_news, articles,
                   entity, kg_result>>

\* STEP 4: the knowledge graph, and the default response
Step4KnowledgeGraph ==
    /\ pc = "step4"
    /\ entity' = extract_main_entity(request.claim)
    /\ \E reply \in (IF KeyMissing(graphKey, "your_actual_api_key_here")
                     THEN {GraphNotAsked} ELSE GraphReplies) :
       LET o == query_knowledge_graph(entity', graphKey, reply) IN
          /\ graphReply' = reply
          /\ calls' = Append(calls,
                  [stage |-> "knowledge_graph", arg |-> entity',
                   out |-> CallEnd(o, o.value.some /\ Truthy(o.value.val))])
          /\ IF o.raised
             THEN Fail /\ UNCHANGED kg_result
             ELSE /\ kg_result' = o.value
                  /\ IF o.value.some /\ Truthy(o.value.val)
                     THEN \E n \in GraphConfidenceMin..GraphConfidenceMax :
                             Return(GraphVerdict(o.value.val, n))
                     ELSE Return(DefaultVerdict)
    /\ UNCHANGED <<config, newsReply, geminiReply, entity_for_news, articles,
                   gemini_response>>

Next ==
    \/ VerifyClaim
    \/ Step1KnowledgeBase
    \/ Step2News
    \/ Step3Gemini
    \/ Step4KnowledgeGraph

Spec == Init /\ [][Next]_vars

----------------------------------------------------------------------------
(* Properties                                                              *)

\* the request carries a non-empty claim
HasClaim == request.has_claim /\ Len(request.claim) > 0

\* stage s was consulted
Called(s) == \E i \in 1..Len(calls) : calls[i].stage = s

\* stage s was consulted and its call ended in one of the ways in outs
Ended(s, outs) ==
    \E i \in 1..Len(calls) : calls[i].stage = s /\ calls[i].out \in outs

\* every key of the i-th knowledge-base record occurs in the lower-cased claim
KeysAllOccur(i) ==
    \A k \in 1..Len(demo_facts[i].keys) :
        Contains(Lower(request.claim), demo_facts[i].keys[k])

\* the lower-cased claim contains a news-trigger phrase
HasNewsTrigger ==
    \E k \in {kw_today, kw_yesterday, kw_this_week, kw_market, kw_election,
              kw_downgrade, kw_days_ago, kw_last_month, kw_breaking_news} :
        Contains(Lower(request.claim), k)

\* C1: a claim whose lower-cased text contains every key of a knowledge-base
\* record gets that record's verdict, explanation and sources with confidence
\* "99%", and none of the news, Gemini and knowledge-graph stages is ever
\* called for it, so that nothing they would answer (with or without their
\* keys configured) can change the result.
C1_KnowledgeBasePreempts ==
    \A i \in 1..Len(demo_facts) :
        (HasClaim /\ KeysAllOccur(i)) =>
            /\ \A j \in 1..Len(calls) : calls[j].stage = "knowledge_base"
            /\ newsReply = NewsNotAsked
            /\ geminiReply = GeminiNotAsked
            /\ graphReply = GraphNotAsked
            /\ pc = "done" =>
                  /\ outcome = "verdict"
                  /\ response.status = 200
                  /\ result.verdict = demo_facts[i].verdict
                  /\ result.explanation = demo_facts[i].explanation
                  /\ result.sources = demo_facts[i].sources
                  /\ result.confidence = "99%"

\* C1 witness: a mixed-case claim with all five keys and a news trigger is
\* answered from the knowledge base, with both keys configured and no service
\* asked.
C1_Witness ==
    /\ pc = "done"
    /\ request.claim = claim_nepal_today
    /\ result.confidence = "99%"
    /\ result.verdict = "FALSE"
    /\ newsKey.value = "news-key" /\ graphKey.value = "graph-key"
    /\ newsReply = NewsNotAsked /\ geminiReply = GeminiNotAsked
    /\ graphReply = GraphNotAsked

C3_NewsMissFallsThrough ==
    \A i \in 1..Len(calls) :
        (calls[i].stage = "news" /\ calls[i].out = "none") =>
            /\ HasNewsTrigger
            /\ \/ /\ i = Len(calls)
                  /\ pc = "step3"
                  /\ outcome = "pending"
                  /\ ENABLED Step3Gemini
               \/ /\ i < Len(calls)
                  /\ calls[i + 1].stage = "gemini"
                  /\ calls[i + 1].arg = request.claim

\* C3 witness: NewsAPI answered with an HTTP error and Gemini then answered
\* the claim as posted.
C3_Witness ==
    /\ pc = "done"
    /\ request.claim = claim_market
    /\ newsKey.value = "news-key"
    /\ newsReply.kind = "http_error"
    /\ Len(calls) = 3
    /\ calls[2].stage = "news" /\ calls[2].out = "none"
    /\ calls[3].stage = "gemini" /\ calls[3].arg = claim_market
    /\ result.verdict = "TRUE"

\* every stage missed: no knowledge-base record matches, news was not
\* triggered or returned nothing, Gemini and the knowledge graph returned
\* nothing (None or an empty value)
AllStagesMissed ==
    /\ HasClaim
    /\ \A i \in 1..Len(demo_facts) : ~KeysAllOccur(i)
    /\ ~HasNewsTrigger \/ Ended("news", {"none"})
    /\ Ended("gemini", {"none", "empty"})
    /\ Ended("knowledge_graph", {"none", "empty"})

\* C4: when all four stages miss, the result is exactly the ERROR verdict with
\* its fixed explanation, no sources and confidence "0%"; and the ERROR
\* verdict is returned in no other case.
C4_ErrorIffAllMissed ==
    /\ (pc = "done" /\ AllStagesMissed) =>
          /\ outcome = "verdict"
          /\ response.status = 200
          /\ result = [ verdict |-> "ERROR",
                        explanation |-> << Lit("Could not verify the claim through any available API.") >>,
                        sources |-> << >>,
                        confidence |-> "0%" ]
    /\ result.verdict = "ERROR" => (pc = "done" /\ AllStagesMissed)

\* C4 witness: a claim with a news trigger for which news, Gemini and the
\* knowledge graph all returned nothing ends with ERROR.
C4_Witness ==
    /\ pc = "done"
    /\ request.claim = claim_market
    /\ Ended("news", {"none"})
    /\ geminiReply.kind = "api_error"
    /\ graphReply.kind = "http_error" /\ graphKey.value = "graph-key"
    /\ result.verdict = "ERROR"
    /\ result.confidence = "0%"

\* C5: a failure of an external service (network error, non-2xx response,
\* malformed payload, missing credential) never escapes as an exception:
\* every request with a non-empty claim ends with a well-formed verdict.
C5_NoExceptionEscapes ==
    (HasClaim /\ pc = "done") =>
        /\ outcome = "verdict"
        /\ response.status = 200
        /\ result.verdict \in {"TRUE", "FALSE", "UNVERIFIED", "ERROR"}
        /\ \A i \in 1..Len(calls) : calls[i].out # "raised"

\* C6: a request whose claim is absent or the empty string is rejected with
\* HTTP 400 and {"error": "No claim provided"}, and no stage is ever consulted
\* for it.
C6_EmptyClaimRejected ==
    (~request.has_claim \/ request.claim = << >>) =>
        /\ calls = << >>
        /\ pc \in {"verify", "done"}
        /\ pc = "done" =>
              /\ outcome = "rejected"
              /\ response.status = 400
              /\ response.body = [error |-> "No claim provided"]

\* C6 witness: the empty string was posted and rejected.
C6_Witness ==
    /\ pc = "done"
    /\ request.has_claim
    /\ request.claim = << >>
    /\ response.status = 400

\* "eiffel tower"
entity_eiffel_tower ==
    <<"e","i","f","f","e","l"," ","t","o","w","e","r">>
\* "the eiffel tower"
entity_the_eiffel_tower ==
    <<"t","h","e"," ","e","i","f","f","e","l"," ","t","o","w","e","r">>
\* "paris"
entity_paris ==
    <<"p","a","r","i","s">>
\* "bananas"
entity_bananas ==
    <<"b","a","n","a","n","a","s">>
\* "hello world"
entity_hello_world ==
    <<"h","e","l","l","o"," ","w","o","r","l","d">>

\* the entity the knowledge-graph stage extracted, once it has
EntityExtracted == Called("knowledge_graph")

\* C7, as stated: extract_main_entity("What is the Eiffel Tower?") is
\* "eiffel tower", of "Paris is the capital of France" is "paris", of
\* "bananas are yellow" is "bananas", of "hello world" is "hello world".
C7_SpecExamples ==
    EntityExtracted =>
        /\ request.claim = claim_eiffel => entity = entity_eiffel_tower
        /\ request.claim = claim_paris => entity = entity_paris
        /\ request.claim = claim_bananas => entity = entity_bananas
        /\ request.claim = claim_hello => entity = entity_hello_world

\* C7, amended: "What is the Eiffel Tower?" yields "the eiffel tower" (the
\* captured text starts with "the ", which is no " the " between two spaces);
\* the other three examples are as stated.
C7_Examples ==
    EntityExtracted =>
        /\ request.claim = claim_eiffel => entity = entity_the_eiffel_tower
        /\ request.claim = claim_paris => entity = entity_paris
        /\ request.claim = claim_bananas => entity = entity_bananas
        /\ request.claim = claim_hello => entity = entity_hello_world

\* C7 witness: the entity of "What is the Eiffel Tower?" has been extracted.
C7_Witness ==
    /\ EntityExtracted
    /\ request.claim = claim_eiffel
    /\ entity = entity_the_eiffel_tower

\* C8: when Gemini is unavailable (returned None) and the knowledge graph
\* returned a result, for a claim with no knowledge-base match and no news
\* articles, the verdict is UNVERIFIED, the confidence is an integer
\* percentage in [50,65], and the explanation contains the entity's name.
C8_GraphFallback ==
    (/\ pc = "done"
     /\ Ended("gemini", {"none"})
     /\ Ended("knowledge_graph", {"value"})
     /\ kg_result.some)
    => /\ outcome = "verdict"
       /\ \A i \in 1..Len(demo_facts) : ~KeysAllOccur(i)
       /\ ~Ended("news", {"value"})
       /\ result.verdict = "UNVERIFIED"
       /\ \E n \in 50..65 : result.confidence = ToString(n) \o "%"
       /\ "name" \in kg_result.val.fields =>
             \E i \in 1..Len(result.explanation) :
                 result.explanation[i] = Lit(kg_result.val.name)

\* C8 witness: Gemini failed, the knowledge graph returned "Eiffel Tower", and
\* the verdict names it with the lowest confidence of the range.
C8_Witness ==
    /\ pc = "done"
    /\ geminiReply.kind = "api_error"
    /\ kg_result.some /\ kg_result.val.name = "Eiffel Tower"
    /\ result.verdict = "UNVERIFIED"
    /\ result.confidence = "50%"
    /\ result.explanation[2] = Lit("Eiffel Tower")

\* Gemini returned a text the orchestrator classified
GeminiAnswered == pc = "done" /\ Ended("gemini", {"value"}) /\ gemini_response.some

\* C9, as stated: the verdict is read off the first word of the lower-cased
\* answer ("true": TRUE, "false": FALSE, anything else: UNVERIFIED), the
\* explanation is the answer verbatim and the confidence is an integer
\* percentage in [85,95].
C9_FirstWordDecides ==
    GeminiAnswered =>
        /\ result.verdict = GeminiVerdictByFirstWord(gemini_response.val)
        /\ result.explanation = << Txt(gemini_response.val) >>
        /\ \E n \in 85..95 : result.confidence = ToString(n) \o "%"

\* C9, amended: the verdict is TRUE when the lower-cased answer starts with
\* the letters "true", FALSE when it starts with "false", whatever follows
\* them, and UNVERIFIED otherwise; explanation and confidence as stated.
C9_PrefixDecides ==
    GeminiAnswered =>
        /\ outcome = "verdict"
        /\ result.verdict =
              (IF MatchAt(Lower(gemini_response.val), str_true, 1) THEN "TRUE"
               ELSE IF MatchAt(Lower(gemini_response.val), str_false, 1) THEN "FALSE"
               ELSE "UNVERIFIED")
        /\ result.explanation = << Txt(gemini_response.val) >>
        /\ \E n \in 85..95 : result.confidence = ToString(n) \o "%"

\* C9 witness: an answer whose first word is "falsehoods" was classified
\* FALSE.
C9_Witness ==
    /\ GeminiAnswered
    /\ gemini_response.val = text_falsehood
    /\ result.verdict = "FALSE"
    /\ result.explanation = << Txt(text_falsehood) >>

\* the place of a stage in the chain
StageRank(s) ==
    CASE s = "knowledge_base" -> 1
      [] s = "news" -> 2
      [] s = "gemini" -> 3
      [] s = "knowledge_graph" -> 4

\* the stages are consulted in the fixed order, each at most once
FixedOrder ==
    \A i, j \in 1..Len(calls) :
        i < j => StageRank(calls[i].stage) < StageRank(calls[j].stage)

\* a stage is consulted only after every earlier stage yielded nothing; only
\* the news stage may be passed over, when the claim has no news trigger
OnlyAfterMisses ==
    \A j \in 1..Len(calls) :
        /\ \A i \in 1..(j - 1) : calls[i].out \in {"none", "empty"}
        /\ \A r \in 1..(StageRank(calls[j].stage) - 1) :
              \/ \E i \in 1..(j - 1) : StageRank(calls[i].stage) = r
              \/ r = 2 /\ ~HasNewsTrigger
        /\ calls[j].stage = "news" => HasNewsTrigger

\* once a stage yields a non-empty result, the run ends there with exactly
\* one verdict
OneVerdictOnResult ==
    \A i \in 1..Len(calls) :
        calls[i].out = "value" =>
            /\ i = Len(calls)
            /\ pc = "done"
            /\ outcome = "verdict"
            /\ response.status = 200

\* C10: the stages are consulted in the order knowledge base, news, Gemini,
\* knowledge graph; each service is called at most once; a stage is called
\* only if every earlier stage yielded nothing; and once a stage yields a
\* non-empty result exactly one verdict is returned and no later stage is
\* called.
C10_FallbackChain == FixedOrder /\ OnlyAfterMisses /\ OneVerdictOnResult
====
